---- MODULE Spec2Model ----
(***************************************************************************)
(* Leo Health: storage/dedup layer (leo_health/db) and the sleep           *)
(* reconciliation read path (api_sleep of leo_pro_dashboard.py and of      *)
(* leo_health/dashboard.py).                                               *)
(*                                                                         *)
(* Encoding of values                                                      *)
(*   timestamps  ISO-8601 strings without offset are modelled by the       *)
(*               number of minutes since 2024-01-15T00:00:00; their        *)
(*               lexicographic order is the order of the numbers           *)
(*   hours       REAL hours are modelled in hundredths of an hour          *)
(*   NULL        "<NULL>" in text columns, NullTime / NullNum otherwise    *)
(***************************************************************************)
EXTENDS Integers, Sequences, FiniteSets, TLC

VARIABLES
    db,      \* the committed content of the SQLite file
    conn,    \* the open write connection of the running operation (its view)
    pc,      \* position of the running operation
    op,      \* the running operation and its arguments
    hist,    \* history: what the running operation started from
    resp     \* the last answer of a read-path query

vars == <<db, conn, pc, op, hist, resp>>

-----------------------------------------------------------------------------
(* Column values *)

NULL == "<NULL>"
NullTime == -1
EmptyTime == -2
NullNum == -1

\* COALESCE(x, '') of the dedup key, for a text column
CoalesceText(x) == IF x = NULL THEN "" ELSE x

\* COALESCE(x, '') of the dedup key, for a timestamp column
CoalesceTime(x) == IF x = NullTime THEN EmptyTime ELSE x

\* COALESCE(x, 0) of the aggregate query
CoalesceNum(x) == IF x = NullNum THEN 0 ELSE x

\* a date() that first shifts the local timestamp to UTC (here UTC-8)
DateOfUtc(t) == (t + 480) \div 1440

\* date(recorded_at): the calendar day of a timestamp
DateOf(t) == t \div 1440

\* round(minutes / 60, 2), in hundredths of an hour
HoursC(m) == (10 * m + 3) \div 6

\* ROUND(a / n) of SQLite for a >= 0 (half away from zero)
RoundDiv(a, n) == (2 * a + n) \div (2 * n)

Max(a, b) == IF a >= b THEN a ELSE b

RECURSIVE SumOver(_, _)
\* sum of f[x] over the finite set S
SumOver(S, f) ==
    IF S = {} THEN 0
    ELSE LET x == CHOOSE y \in S : TRUE IN f[x] + SumOver(S \ {x}, f)

-----------------------------------------------------------------------------
(* Rows of the sleep table, as the adapters emit them *)

\* a raw Apple Health stage segment (_HealthHandler._handle_record)
AppleRow(stage, s, e, device) ==
    [source |-> "apple_health", stage |-> stage, start |-> s, end |-> e,
     recorded_at |-> s, device |-> device,
     sleep_performance_pct |-> NullNum, light_sleep_hours |-> NullNum,
     rem_sleep_hours |-> NullNum, deep_sleep_hours |-> NullNum,
     awake_hours |-> NullNum]

\* a Whoop nightly row: no start, end or device key (whoop._parse_sleep_row)
WhoopRow(day, perf, light, rem, deep, awake) ==
    [source |-> "whoop", stage |-> "asleep", start |-> NullTime, end |-> NullTime,
     recorded_at |-> day * 1440, device |-> NULL,
     sleep_performance_pct |-> perf, light_sleep_hours |-> light,
     rem_sleep_hours |-> rem, deep_sleep_hours |-> deep, awake_hours |-> awake]

\* an Oura nightly row (oura._parse_sleep_row)
OuraRow(day, s, e, perf, light, rem, deep, awake) ==
    [source |-> "oura", stage |-> "asleep", start |-> s, end |-> e,
     recorded_at |-> day * 1440, device |-> "oura",
     sleep_performance_pct |-> perf, light_sleep_hours |-> light,
     rem_sleep_hours |-> rem, deep_sleep_hours |-> deep, awake_hours |-> awake]

\* a Fitbit nightly row (fitbit._parse_sleep_file)
FitbitRow(day, s, e, perf, light, rem, deep, awake) ==
    [source |-> "fitbit", stage |-> "asleep", start |-> s, end |-> e,
     recorded_at |-> day * 1440, device |-> "fitbit",
     sleep_performance_pct |-> perf, light_sleep_hours |-> light,
     rem_sleep_hours |-> rem, deep_sleep_hours |-> deep, awake_hours |-> awake]

\* a stored row: the adapter's fields plus the AUTOINCREMENT id
WithId(r, id) ==
    [id |-> id, source |-> r.source, stage |-> r.stage, start |-> r.start,
     end |-> r.end, recorded_at |-> r.recorded_at, device |-> r.device,
     sleep_performance_pct |-> r.sleep_performance_pct,
     light_sleep_hours |-> r.light_sleep_hours,
     rem_sleep_hours |-> r.rem_sleep_hours,
     deep_sleep_hours |-> r.deep_sleep_hours, awake_hours |-> r.awake_hours]

\* the adapter's fields of a stored row
Content(r) ==
    [source |-> r.source, stage |-> r.stage, start |-> r.start,
     end |-> r.end, recorded_at |-> r.recorded_at, device |-> r.device,
     sleep_performance_pct |-> r.sleep_performance_pct,
     light_sleep_hours |-> r.light_sleep_hours,
     rem_sleep_hours |-> r.rem_sleep_hours,
     deep_sleep_hours |-> r.deep_sleep_hours, awake_hours |-> r.awake_hours]

-----------------------------------------------------------------------------
(* The sleep read path *)

\* recorded_at >= ? with ? = _since(days), the first day of the range
InRange(r, since) == r.recorded_at >= since * 1440

\* "watch" in (device or "").lower()
IsWatch(device) == device \in {"Apple Watch", "Sleep Watch"}

\* the device names in Python's string order, as sorted() yields them
SortedDevices == <<"Apple Watch", "AutoSleep", "Sleep Watch">>

RawStages == {"asleepdeep", "asleeprem", "asleepcore", "asleepunspecified", "awake"}

STAGE_KEY == [s \in RawStages |->
    CASE s = "asleepdeep" -> "deep"
      [] s = "asleeprem" -> "rem"
      [] s = "asleepcore" -> "core"
      [] s = "asleepunspecified" -> "unspec"
      [] s = "awake" -> "awake"]

\* tier 1: the WHERE clause of the pre-aggregated query
PreAggRows(sleep, since) ==
    {r \in sleep : InRange(r, since) /\ r.source \in {"whoop", "oura"}
                   /\ r.stage = "asleep"}

\* ROUND(AVG(COALESCE(column, 0)), digits) over the rows G of one date
AvgOf(G, column) ==
    RoundDiv(SumOver(G, [r \in G |-> CoalesceNum(r[column])]), Cardinality(G))

\* tier 1: GROUP BY date(recorded_at) with ROUND(AVG(COALESCE(x,0)),2) per field
PreAggQuery(sleep, since) ==
    LET P == PreAggRows(sleep, since)
        G(d) == {r \in P : DateOf(r.recorded_at) = d}
    IN {[date |-> d,
         deep |-> AvgOf(G(d), "deep_sleep_hours"),
         rem |-> AvgOf(G(d), "rem_sleep_hours"),
         light |-> AvgOf(G(d), "light_sleep_hours"),
         awake |-> AvgOf(G(d), "awake_hours"),
         efficiency |-> AvgOf(G(d), "sleep_performance_pct")]
        : d \in {DateOf(r.recorded_at) : r \in P}}

SleepTotal(o) == o.deep + o.rem + o.light

\* tier 1 of leo_pro_dashboard: one row per date, the larger total wins
DedupByDate(rows) ==
    {r \in rows : \A q \in rows : q.date = r.date => SleepTotal(q) <= SleepTotal(r)}

\* tier 2: the WHERE clause of the raw-segment query
Segments(sleep, since) ==
    {r \in sleep : InRange(r, since) /\ r.source = "apple_health"
                   /\ r.stage \in RawStages
                   /\ r.start # NullTime /\ r.end # NullTime
                   /\ r.start >= 0 /\ r.end >= 0}

\* the first element of sorted(intervals): least (start, end)
FirstInterval(S) ==
    CHOOSE r \in S : \A q \in S :
        \/ r.start < q.start
        \/ r.start = q.start /\ r.end < q.end
        \/ r.start = q.start /\ r.end = q.end /\ r.id <= q.id

RECURSIVE MergeFrom(_, _, _, _)
\* the merge loop of _merged_hours: [cs, ce] is merged[-1], acc the minutes of
\* the intervals already closed
MergeFrom(S, cs, ce, acc) ==
    IF S = {} THEN acc + (ce - cs)
    ELSE LET r == FirstInterval(S)
         IN IF r.start <= ce
            THEN MergeFrom(S \ {r}, cs, Max(ce, r.end), acc)
            ELSE MergeFrom(S \ {r}, r.start, r.end, acc + (ce - cs))

\* _merged_hours of a non-empty group
merged_hours(S) ==
    LET r == FirstInterval(S)
    IN HoursC(MergeFrom(S \ {r}, r.start, r.end, 0))

\* the naive SUM(julianday(end) - julianday(start)) * 24 of a group, rounded
summed_hours(S) == HoursC(SumOver(S, [r \in S |-> r.end - r.start]))

\* the rows of one (date, device, stage) group
Group(segs, d, dev, stage) ==
    {r \in segs : DateOf(r.recorded_at) = d /\ r.device = dev /\ r.stage = stage}

\* the hours _merge_sleep_segments adds under one key of a (date, device) row
MergedKeyHours(segs, d, dev, key) ==
    LET Hrs(s) == IF Group(segs, d, dev, s) = {} THEN 0
                  ELSE merged_hours(Group(segs, d, dev, s))
    IN SumOver({s \in RawStages : STAGE_KEY[s] = key}, [s \in RawStages |-> Hrs(s)])

\* _merge_sleep_segments: one row per (date, device)
merge_sleep_segments(segs) ==
    {[date |-> DateOf(r.recorded_at), device |-> r.device,
      deep |-> MergedKeyHours(segs, DateOf(r.recorded_at), r.device, "deep"),
      rem |-> MergedKeyHours(segs, DateOf(r.recorded_at), r.device, "rem"),
      core |-> MergedKeyHours(segs, DateOf(r.recorded_at), r.device, "core"),
      unspec |-> MergedKeyHours(segs, DateOf(r.recorded_at), r.device, "unspec"),
      awake |-> MergedKeyHours(segs, DateOf(r.recorded_at), r.device, "awake"),
      efficiency |-> 0] : r \in segs}

\* ROUND(COALESCE(SUM(CASE WHEN stage=... THEN dur END),0),2) of dashboard.py
SummedStageHours(segs, d, dev, stage) ==
    IF Group(segs, d, dev, stage) = {} THEN 0
    ELSE summed_hours(Group(segs, d, dev, stage))

\* the GROUP BY date, device query of leo_health/dashboard.py
summed_sleep_segments(segs) ==
    {[date |-> DateOf(r.recorded_at), device |-> r.device,
      deep |-> SummedStageHours(segs, DateOf(r.recorded_at), r.device, "asleepdeep"),
      rem |-> SummedStageHours(segs, DateOf(r.recorded_at), r.device, "asleeprem"),
      core |-> SummedStageHours(segs, DateOf(r.recorded_at), r.device, "asleepcore"),
      unspec |-> SummedStageHours(segs, DateOf(r.recorded_at), r.device, "asleepunspecified"),
      awake |-> SummedStageHours(segs, DateOf(r.recorded_at), r.device, "awake"),
      efficiency |-> 0] : r \in segs}

Score(r) == r.deep + r.rem

\* a selection step that compares the deep+REM score only
SelectStepByScore(prev, r) ==
    IF Score(r) > Score(prev) THEN r ELSE prev

\* one step of the device-selection loop: the row by_date[d] holds after r
SelectStep(prev, r) ==
    IF IsWatch(r.device) /\ ~IsWatch(prev.device) THEN r
    ELSE IF IsWatch(r.device) = IsWatch(prev.device) /\ Score(r) > Score(prev) THEN r
    ELSE prev

RECURSIVE SelectFrom(_, _, _, _)
\* the device-selection loop over the rows of date d, read in the order ord;
\* prev is <<>> while by_date.get(d) is None, else <<by_date[d]>>
SelectFrom(raw, d, ord, prev) ==
    IF ord = <<>> THEN prev
    ELSE LET here == {r \in raw : r.date = d /\ r.device = Head(ord)}
         IN IF here = {} THEN SelectFrom(raw, d, Tail(ord), prev)
            ELSE LET r == CHOOSE x \in here : TRUE
                 IN IF prev = <<>> THEN SelectFrom(raw, d, Tail(ord), <<r>>)
                    ELSE SelectFrom(raw, d, Tail(ord), <<SelectStep(prev[1], r)>>)

\* by_date[d] after the loop, for a date d that has rows
SelectDevice(raw, d, ord) == SelectFrom(raw, d, ord, <<>>)[1]

\* a light that prefers the umbrella total whenever there is one
LightHoursUmbrellaFirst(r) ==
    IF r.unspec > 0 THEN r.unspec ELSE r.core

\* light of the selected row: core when the device tracks stages
LightHours(r) ==
    IF r.deep > 0 \/ r.rem > 0 \/ r.core > 0 THEN r.core ELSE r.unspec

\* entry = dict(r); entry["light"] = round(light, 2)
Entry(r) ==
    [date |-> r.date, device |-> r.device, deep |-> r.deep, rem |-> r.rem,
     core |-> r.core, unspec |-> r.unspec, awake |-> r.awake,
     efficiency |-> r.efficiency, light |-> LightHours(r)]

\* tier 2: the selected device of every date, all-zero nights dropped
StagedRows(raw, ord) ==
    {e \in {Entry(SelectDevice(raw, d, ord)) : d \in {r.date : r \in raw}} :
        e.deep + e.rem + e.light > 0}

\* tier 3: SUM of the in_bed durations per date (no length filter; julianday
\* of '' is NULL and the term is skipped), dates with light > 0
InBedRows(sleep, since) ==
    LET B == {r \in sleep : InRange(r, since) /\ r.source = "apple_health"
                            /\ r.stage = "in_bed"
                            /\ r.start # NullTime /\ r.end # NullTime}
        OK(d) == {r \in B : DateOf(r.recorded_at) = d /\ r.start >= 0 /\ r.end >= 0}
    IN {o \in {[date |-> d, deep |-> 0, rem |-> 0,
                light |-> HoursC(SumOver(OK(d), [r \in OK(d) |-> r.end - r.start])),
                awake |-> 0, efficiency |-> 0]
               : d \in {DateOf(r.recorded_at) : r \in B}} : o.light > 0}

\* api_sleep of leo_pro_dashboard.py
api_sleep_pro(sleep, since) ==
    IF PreAggQuery(sleep, since) # {} THEN DedupByDate(PreAggQuery(sleep, since))
    ELSE IF StagedRows(merge_sleep_segments(Segments(sleep, since)), SortedDevices) # {}
         THEN StagedRows(merge_sleep_segments(Segments(sleep, since)), SortedDevices)
         ELSE InBedRows(sleep, since)

\* api_sleep of leo_health/dashboard.py; ord is the order in which SQLite
\* returns the devices of one date (the query orders by date only)
api_sleep(sleep, since, ord) ==
    IF PreAggQuery(sleep, since) # {} THEN PreAggQuery(sleep, since)
    ELSE IF StagedRows(summed_sleep_segments(Segments(sleep, since)), ord) # {}
         THEN StagedRows(summed_sleep_segments(Segments(sleep, since)), ord)
         ELSE InBedRows(sleep, since)

-----------------------------------------------------------------------------
(* The store: schema.py and ingest.py *)

\* the tables other than sleep; their rows are opaque
OtherTables == {"heart_rate", "hrv", "workouts", "whoop_recovery",
                "whoop_strain", "oura_readiness"}

\* the database file before create_schema ever ran
EmptyDb ==
    [schema |-> FALSE, index |-> FALSE, seq |-> 0, sleep |-> {},
     t |-> [n \in OtherTables |-> <<>>]]

\* the key columns as stored, without COALESCE: an index over them would
\* treat every NULL as distinct
IndexKeyNoCoalesce(r) == <<r.source, r.stage, r.start, r.end, r.device>>

\* the expressions of idx_sleep_unique
IndexKey(r) ==
    <<r.source, CoalesceText(r.stage), CoalesceTime(r.start),
      CoalesceTime(r.end), CoalesceText(r.device)>>

\* a UNIQUE index never equates keys that hold a NULL
KeyHasNull(k) ==
    k[1] = NULL \/ k[2] = NULL \/ k[3] = NullTime \/ k[4] = NullTime \/ k[5] = NULL

\* a plain, non-unique index rejects no row
ConflictsNonUnique(v, r) == FALSE

\* whether idx_sleep_unique rejects row r next to the rows of view v
Conflicts(v, r) ==
    /\ v.index
    /\ ~KeyHasNull(IndexKey(r))
    /\ \E q \in v.sleep : IndexKey(q) = IndexKey(r)

\* INSERT OR IGNORE of one sleep row: a row that breaks the unique index or a
\* NOT NULL column is skipped
InsertSleepRow(v, r) ==
    IF Conflicts(v, r) \/ r.source = NULL \/ r.recorded_at = NullTime THEN v
    ELSE [v EXCEPT !.sleep = @ \cup {WithId(r, v.seq + 1)}, !.seq = @ + 1]

RECURSIVE InsertSleepRows(_, _)
\* executemany over the rows of a batch, in order
InsertSleepRows(v, rows) ==
    IF rows = <<>> THEN v
    ELSE InsertSleepRows(InsertSleepRow(v, Head(rows)), Tail(rows))

\* _insert_many(conn, table, rows) on the connection's view v
insert_many(v, table, rows) ==
    IF rows = <<>> THEN v
    ELSE IF table = "sleep" THEN InsertSleepRows(v, rows)
    ELSE [v EXCEPT !.t[table] = @ \o rows]

\* the GROUP BY list of the migration's DELETE
GroupKey(r) ==
    <<r.source, CoalesceText(r.stage), CoalesceTime(r.start),
      CoalesceTime(r.end), CoalesceText(r.device)>>

\* a DELETE that keeps MAX(id) of every group instead
dedup_delete_keep_latest(sleep) ==
    {r \in sleep : \A q \in sleep : GroupKey(q) = GroupKey(r) => r.id >= q.id}

\* a DELETE with id IN (SELECT MIN(id) ...): removes the earliest of every group
dedup_delete_earliest(sleep) ==
    {r \in sleep : \E q \in sleep : GroupKey(q) = GroupKey(r) /\ q.id < r.id}

\* a DELETE of every row whose key occurs more than once (HAVING COUNT(*) > 1)
dedup_delete_whole_groups(sleep) ==
    {r \in sleep : \A q \in sleep : GroupKey(q) = GroupKey(r) => q.id = r.id}

\* DELETE FROM sleep WHERE id NOT IN (SELECT MIN(id) ... GROUP BY ...)
dedup_delete(sleep) ==
    {r \in sleep : \A q \in sleep : GroupKey(q) = GroupKey(r) => r.id <= q.id}

\* CREATE UNIQUE INDEX fails when two rows share a key without NULL
IndexBuildFails(sleep) ==
    \E r, q \in sleep : r.id # q.id /\ IndexKey(r) = IndexKey(q)
                        /\ ~KeyHasNull(IndexKey(r))

\* the (table, data key) pairs of each ingest_<source>, in call order
IngestOrder(source) ==
    CASE source = "apple_health" ->
            << <<"heart_rate", "heart_rate">>, <<"hrv", "hrv">>,
               <<"sleep", "sleep">>, <<"workouts", "workouts">> >>
      [] source = "whoop" ->
            << <<"whoop_recovery", "recovery">>, <<"whoop_strain", "strain">>,
               <<"hrv", "hrv">>, <<"sleep", "sleep">> >>
      [] source = "fitbit" ->
            << <<"heart_rate", "heart_rate">>, <<"hrv", "hrv">>,
               <<"sleep", "sleep">>, <<"workouts", "workouts">> >>
      [] source = "oura" ->
            << <<"oura_readiness", "readiness">>, <<"sleep", "sleep">>,
               <<"heart_rate", "heart_rate">>, <<"hrv", "hrv">> >>

\* data.get(key, []) of a parser's output
DataGet(data, key) == IF key \in DOMAIN data THEN data[key] ELSE <<>>

\* r.get("recorded_at") is truthy
HasRecordedAt(r) == r.recorded_at # NullTime /\ r.recorded_at # EmptyTime

\* the rows ingest_<source> hands to _insert_many for one data key
BatchRows(source, data, key) ==
    IF source = "whoop" /\ key = "sleep"
    THEN SelectSeq(DataGet(data, key), HasRecordedAt)
    ELSE DataGet(data, key)

-----------------------------------------------------------------------------
(* Bounds and inputs *)

\* rows of a sleep table drawn for the read path
MaxRows == 2

\* rows of a database written before the unique index existed
MaxLegacy == 3

\* operations started on one database
MaxCalls == 2

\* the first day of the queried range
Sinces == {0, 1}

Stages6 == <<"asleepdeep", "asleeprem", "asleepcore", "asleepunspecified",
             "awake", "in_bed">>

Devices == <<"Apple Watch", "AutoSleep", "Sleep Watch">>

\* the night of 2024-01-15: 23:00-24:00 and 22:30-06:30
NightIntervals == << <<1380, 1440>>, <<1350, 1830>> >>

\* every stage, device and interval of that night
NightRow(i) ==
    AppleRow(Stages6[((i - 1) % 6) + 1],
             NightIntervals[((i - 1) \div 18) + 1][1],
             NightIntervals[((i - 1) \div 18) + 1][2],
             Devices[(((i - 1) \div 6) % 3) + 1])

NightRows == [i \in 1..(6 * 3 * 2) |-> NightRow(i)]

\* 2024-01-16: 00:00-00:30 and 00:20-00:50, and a segment that ends before it starts
MorningRows ==
    << AppleRow("asleepdeep", 1440, 1470, "Apple Watch"),
       AppleRow("asleepdeep", 1460, 1490, "Apple Watch"),
       AppleRow("asleepdeep", 1470, 1440, "Apple Watch"),
       AppleRow("asleepcore", 1440, 1470, "Apple Watch"),
       AppleRow("in_bed", 1440, 1470, "Apple Watch"),
       AppleRow("in_bed", 1460, 1490, "Apple Watch") >>

\* nightly rows of the three pre-aggregating adapters; the last one comes from
\* a Whoop export without stage columns
NightlyRows ==
    << WhoopRow(0, 80, 400, 150, 100, 50),
       WhoopRow(1, 90, 300, 200, 150, 30),
       OuraRow(0, 1350, 1830, 92, 420, 160, 110, 40),
       OuraRow(1, EmptyTime, EmptyTime, NullNum, 350, NullNum, 90, 20),
       FitbitRow(0, 1350, 1830, 88, 380, 140, 120, 60),
       FitbitRow(1, EmptyTime, EmptyTime, 85, 360, 130, 100, 45),
       WhoopRow(1, 70, NullNum, NullNum, NullNum, NullNum) >>

\* the rows a drawn sleep table is made of
Universe == NightRows \o MorningRows \o NightlyRows

RECURSIVE TablesFrom(_, _)
\* the tables of at most n rows among Universe[i..], ids in Universe order,
\* no two rows with one key (the unique index is in place)
TablesFrom(i, n) ==
    IF n = 0 \/ i > Len(Universe) THEN {{}}
    ELSE TablesFrom(i + 1, n) \cup
         {t \cup {WithId(Universe[i], i)} :
            t \in {u \in TablesFrom(i + 1, n - 1) :
                     \A q \in u : IndexKey(q) # IndexKey(Universe[i])}}

\* the outputs of the adapters: one parsed export each
Exports ==
    [apple_night |->
        [source |-> "apple_health",
         data |-> [heart_rate |-> <<"hr_night">>,
                   sleep |-> << AppleRow("asleepdeep", 1380, 1440, "Apple Watch"),
                                AppleRow("asleepunspecified", 1350, 1830, "Apple Watch") >>]],
     apple_morning |->
        [source |-> "apple_health",
         data |-> [sleep |-> << AppleRow("asleepdeep", 1380, 1440, "Apple Watch"),
                                AppleRow("asleepdeep", 1440, 1470, "Apple Watch"),
                                AppleRow("asleepdeep", 1440, 1470, "Apple Watch") >>,
                   workouts |-> <<"run">>]],
     whoop |->
        [source |-> "whoop",
         data |-> [recovery |-> <<"rec">>,
                   sleep |-> << WhoopRow(0, 80, 400, 150, 100, 50),
                                WhoopRow(1, 90, 300, 200, 150, 30) >>]],
     oura |->
        [source |-> "oura",
         data |-> [readiness |-> <<"rdy">>,
                   sleep |-> << OuraRow(0, 1350, 1830, 92, 420, 160, 110, 40) >>]],
     fitbit |->
        [source |-> "fitbit",
         data |-> [hrv |-> <<"rmssd">>,
                   sleep |-> << FitbitRow(0, 1350, 1830, 88, 380, 140, 120, 60) >>]]]

ExportNames == DOMAIN Exports

\* rows an older version, without the unique index, left in the table
LegacyRows ==
    << AppleRow("asleepdeep", 1380, 1440, "Apple Watch"),
       AppleRow("asleepcore", 1440, 1470, "Apple Watch"),
       WhoopRow(0, 80, 400, 150, 100, 50) >>

RECURSIVE LegacySeqs(_)
\* the sequences of at most n legacy rows
LegacySeqs(n) ==
    IF n = 0 THEN {<<>>}
    ELSE LegacySeqs(n - 1) \cup
         {Append(q, LegacyRows[i]) :
            q \in {u \in LegacySeqs(n - 1) : Len(u) = n - 1},
            i \in 1..Len(LegacyRows)}

\* a database written by the older version: tables, no unique index
LegacyDb(q) ==
    [schema |-> TRUE, index |-> FALSE, seq |-> Len(q),
     sleep |-> {WithId(q[i], i) : i \in 1..Len(q)},
     t |-> [n \in OtherTables |-> <<>>]]

-----------------------------------------------------------------------------
(* Operations *)

NoOp == [kind |-> "none", export |-> "none", i |-> 0]

NoResp == [api |-> "none", since |-> 0, rows |-> {}]

\* a call of ingest_<source>(data), of create_schema alone, or a dashboard start
Call ==
    /\ pc = "idle"
    /\ hist.calls < MaxCalls
    /\ \/ \E e \in ExportNames :
             /\ op' = [kind |-> "ingest", export |-> e, i |-> 1]
             /\ pc' = "script"
       \/ /\ op' = [kind |-> "create_schema", export |-> "none", i |-> 0]
          /\ pc' = "script"
       \/ /\ db.schema
          /\ op' = [kind |-> "startup_migrate", export |-> "none", i |-> 0]
          /\ pc' = "delete"
    /\ hist' = [hist EXCEPT !.calls = @ + 1, !.pre = db, !.last = "called"]
    /\ UNCHANGED <<db, conn, resp>>

\* create_schema: conn.executescript(SCHEMA), CREATE ... IF NOT EXISTS in autocommit
ExecuteScript ==
    /\ pc = "script"
    /\ db' = [db EXCEPT !.schema = TRUE]
    /\ conn' = db'
    /\ pc' = "delete"
    /\ UNCHANGED <<op, hist, resp>>

\* the DELETE of _migrate_sleep_dedup / _startup_migrate, inside the
\* transaction the statement opens
MigrateDelete ==
    /\ pc = "delete"
    /\ conn' = [conn EXCEPT !.sleep = dedup_delete(@)]
    /\ hist' = [hist EXCEPT !.premig = conn.sleep]
    /\ pc' = "index"
    /\ UNCHANGED <<db, op, resp>>

\* CREATE UNIQUE INDEX IF NOT EXISTS idx_sleep_unique; on failure the call
\* raises (create_schema) or warns (_startup_migrate) and nothing is committed
MigrateIndex ==
    /\ pc = "index"
    /\ IF conn.index
       THEN pc' = "mig_commit" /\ UNCHANGED <<conn, hist>>
       ELSE IF IndexBuildFails(conn.sleep)
       THEN /\ pc' = "idle"
            /\ conn' = db
            /\ hist' = [hist EXCEPT !.last = "failed"]
       ELSE /\ pc' = "mig_commit"
            /\ conn' = [conn EXCEPT !.index = TRUE]
            /\ UNCHANGED hist
    /\ UNCHANGED <<db, op, resp>>

\* conn.commit() of create_schema / c.commit() of _startup_migrate
MigrateCommit ==
    /\ pc = "mig_commit"
    /\ db' = conn
    /\ pc' = IF op.kind = "ingest" THEN "insert" ELSE "idle"
    /\ hist' = [hist EXCEPT !.last = "migrated", !.base = conn]
    /\ UNCHANGED <<conn, op, resp>>

\* an _insert_many that commits after every table (autocommit connection)
InsertAutocommit ==
    /\ pc = "insert"
    /\ LET src == Exports[op.export].source
           step == IngestOrder(src)[op.i]
       IN conn' = insert_many(conn, step[1],
                              BatchRows(src, Exports[op.export].data, step[2]))
    /\ db' = conn'
    /\ IF op.i = Len(IngestOrder(Exports[op.export].source))
       THEN pc' = "commit" /\ UNCHANGED op
       ELSE pc' = "insert" /\ op' = [op EXCEPT !.i = @ + 1]
    /\ hist' = [hist EXCEPT !.last = "inserting"]
    /\ UNCHANGED resp

\* one _insert_many call of ingest_<source>, inside the open transaction
Insert ==
    /\ pc = "insert"
    /\ LET src == Exports[op.export].source
           step == IngestOrder(src)[op.i]
       IN conn' = insert_many(conn, step[1],
                              BatchRows(src, Exports[op.export].data, step[2]))
    /\ IF op.i = Len(IngestOrder(Exports[op.export].source))
       THEN pc' = "commit" /\ UNCHANGED op
       ELSE pc' = "insert" /\ op' = [op EXCEPT !.i = @ + 1]
    /\ hist' = [hist EXCEPT !.last = "inserting"]
    /\ UNCHANGED <<db, resp>>

\* conn.commit() of ingest_<source>
Commit ==
    /\ pc = "commit"
    /\ db' = conn
    /\ pc' = "idle"
    /\ hist' = [hist EXCEPT !.last = "ingested",
                            !.again = op.export \in hist.done,
                            !.done = @ \cup {op.export}]
    /\ UNCHANGED <<conn, op, resp>>

\* the process dies, or a statement raises and the connection is closed
\* without commit: SQLite rolls the open transaction back
Crash ==
    /\ pc # "idle"
    /\ conn' = db
    /\ pc' = "idle"
    /\ hist' = [hist EXCEPT !.last = "crashed"]
    /\ UNCHANGED <<db, op, resp>>

\* GET /api/sleep of leo_pro_dashboard.py, on its own read connection
ApiSleepPro ==
    /\ \E since \in Sinces :
         resp' = [api |-> "pro", since |-> since,
                  rows |-> api_sleep_pro(db.sleep, since)]
    /\ UNCHANGED <<db, conn, pc, op, hist>>

\* the orders in which one date's devices can come back from the query
DeviceOrders ==
    {o \in [1..Len(Devices) -> {Devices[i] : i \in 1..Len(Devices)}] :
        \A i, j \in 1..Len(Devices) : i # j => o[i] # o[j]}

\* GET /api/sleep of leo_health/dashboard.py
ApiSleep ==
    /\ \E since \in Sinces, ord \in DeviceOrders :
         resp' = [api |-> "core", since |-> since,
                  rows |-> api_sleep(db.sleep, since, ord)]
    /\ UNCHANGED <<db, conn, pc, op, hist>>

NoHist ==
    [calls |-> 0, pre |-> EmptyDb, premig |-> {}, base |-> EmptyDb,
     done |-> {}, again |-> FALSE, last |-> "none"]

\* a new installation, or a database an older version filled
Init ==
    /\ db \in {EmptyDb} \cup {LegacyDb(q) : q \in LegacySeqs(MaxLegacy)}
    /\ conn = db
    /\ pc = "idle"
    /\ op = NoOp
    /\ hist = NoHist
    /\ resp = NoResp

Next ==
    \/ Call
    \/ ExecuteScript
    \/ MigrateDelete
    \/ MigrateIndex
    \/ MigrateCommit
    \/ Insert
    \/ Commit
    \/ Crash

\* the write path: schema creation, migration and ingestion on one database
Spec == Init /\ [][Next]_vars

\* a migrated database holding a drawn sleep table
InitSleep ==
    /\ db \in {[schema |-> TRUE, index |-> TRUE, seq |-> Len(Universe),
                sleep |-> t, t |-> [n \in OtherTables |-> <<>>]]
               : t \in TablesFrom(1, MaxRows)}
    /\ conn = db
    /\ pc = "idle"
    /\ op = NoOp
    /\ hist = NoHist
    /\ resp = NoResp

NextSleep ==
    \/ ApiSleepPro
    \/ ApiSleep

\* the read path: api_sleep of both dashboards over a stored sleep table
SpecSleep == InitSleep /\ [][NextSleep]_vars

-----------------------------------------------------------------------------
(* Properties of the write path, checked under Spec *)

\* the (source, stage, start, end, device) tuple of a row, NULL read as ''
SleepKey(r) ==
    <<r.source,
      IF r.stage = NULL THEN "" ELSE r.stage,
      IF r.start = NullTime THEN EmptyTime ELSE r.start,
      IF r.end = NullTime THEN EmptyTime ELSE r.end,
      IF r.device = NULL THEN "" ELSE r.device>>

\* the sleep rows the running ingest hands to _insert_many
BatchSleep == BatchRows(Exports[op.export].source, Exports[op.export].data, "sleep")

\* C1: once create_schema has completed on a database (idx_sleep_unique
\* exists), in every reachable state no two rows of the sleep table have the
\* same (source, stage, start, end, device) tuple, NULL read as ''
C1_SleepKeysUnique ==
    db.index =>
        \A r, q \in db.sleep : r.id # q.id => SleepKey(r) # SleepKey(q)

\* an ingest has committed a batch holding a sleep row whose tuple was stored
C1_Witness ==
    /\ db.index
    /\ hist.last = "ingested"
    /\ \E i \in 1..Len(BatchSleep) :
          \E q \in hist.base.sleep : SleepKey(q) = SleepKey(BatchSleep[i])

\* deep/rem/light/awake hours per date of an api_sleep answer
StageHoursOf(rows) ==
    {[date |-> o.date, deep |-> o.deep, rem |-> o.rem, light |-> o.light,
      awake |-> o.awake] : o \in rows}

\* C2: ingesting an export whose ingest has committed before leaves the set
\* of sleep rows unchanged, and api_sleep returns for every date the same
\* deep/rem/light/awake hours as before the repeated ingest
C2_ReimportIdempotent ==
    (hist.last = "ingested" /\ hist.again) =>
        /\ db.sleep = hist.pre.sleep
        /\ \A s \in Sinces :
              /\ StageHoursOf(api_sleep_pro(db.sleep, s))
                    = StageHoursOf(api_sleep_pro(hist.pre.sleep, s))
              /\ StageHoursOf(api_sleep(db.sleep, s, Devices))
                    = StageHoursOf(api_sleep(hist.pre.sleep, s, Devices))

\* the same export has been ingested and committed a second time
C2_Witness ==
    /\ hist.last = "ingested"
    /\ hist.again
    /\ Len(BatchSleep) > 0
    /\ db.sleep # {}

\* the database `after` holds the database `before` plus the whole batch of
\* export e: every row of every table of the batch
WholeBatch(before, after, e) ==
    LET src == Exports[e].source
        order == IngestOrder(src)
        rows(k) == BatchRows(src, Exports[e].data, order[k][2])
    IN /\ \A n \in OtherTables :
            \E add \in {<<>>} \cup {rows(k) : k \in {j \in 1..Len(order) : order[j][1] = n}} :
               /\ after.t[n] = before.t[n] \o add
               /\ \A k \in 1..Len(order) : order[k][1] = n => add = rows(k)
       /\ before.sleep \subseteq after.sleep
       /\ \A k \in 1..Len(order) : order[k][1] = "sleep" =>
            /\ \A i \in 1..Len(rows(k)) :
                  \E q \in after.sleep : SleepKey(q) = SleepKey(rows(k)[i])
            /\ \A q \in after.sleep \ before.sleep :
                  \E i \in 1..Len(rows(k)) : Content(q) = rows(k)[i]

\* C3: each ingest_<source> call writes its batch in one transaction: while
\* the call inserts, and when it raises or the process dies before the
\* commit, the stored database (what any reader sees) does not change; it
\* changes only at the commit, to hold the whole batch
C3_BatchAtomic ==
    [][(pc \in {"insert", "commit"}) =>
          ((db' = db) \/
           (pc = "commit" /\ pc' = "idle" /\ WholeBatch(db, db', op.export)))]_vars

\* an ingest died after its first inserts and left nothing behind
C3_Witness ==
    /\ hist.last = "crashed"
    /\ op.kind = "ingest"
    /\ op.export = "apple_night"
    /\ op.i >= 3
    /\ db = hist.base
    /\ db.t["heart_rate"] = <<>>

\* C9: the sleep dedup migration leaves, for every group of rows sharing
\* the NULL-coalesced (source, stage, start, end, device) key, exactly one
\* row, the one with the smallest id; it deletes no row that was alone in
\* its group and ends with the unique index present
C9_MigrationKeepsEarliest ==
    hist.last = "migrated" =>
        /\ db.index
        /\ db.sleep \subseteq hist.premig
        /\ \A r \in hist.premig :
              LET G == {q \in hist.premig : SleepKey(q) = SleepKey(r)}
                  K == {q \in db.sleep : SleepKey(q) = SleepKey(r)}
              IN /\ Cardinality(K) = 1
                 /\ \A k \in K : \A g \in G : k.id <= g.id

\* a migration has removed duplicates and kept a row that had none
C9_Witness ==
    /\ hist.last = "migrated"
    /\ Cardinality(db.sleep) < Cardinality(hist.premig)
    /\ \E r \in hist.premig :
          \A q \in hist.premig : SleepKey(q) = SleepKey(r) => q = r

\* C10: the migration is idempotent: run by create_schema or by a dashboard
\* start on a database on which it has already succeeded, it deletes no row
\* and changes nothing in the store
C10_MigrationIdempotent ==
    (hist.last = "migrated" /\ hist.pre.index) => db = hist.pre

\* the migration has run again on a migrated database that holds rows
C10_Witness ==
    /\ hist.last = "migrated"
    /\ hist.pre.index
    /\ hist.pre.sleep # {}

-----------------------------------------------------------------------------
(* Properties of the read path, checked under SpecSleep *)

\* a query has been answered
Answered == resp.api # "none"

\* the raw segments the answered query read
RespSegments == Segments(db.sleep, resp.since)

\* the rows of the answer that tier 2 (raw segments) produced
StagedOut == {o \in resp.rows : "device" \in DOMAIN o}

\* the per-(date, device) totals the answering dashboard computes from segs
TotalsOf(segs) ==
    IF resp.api = "pro" THEN merge_sleep_segments(segs)
    ELSE summed_sleep_segments(segs)

\* the minutes covered by at least one interval of S, every instant once
UnionMinutes(S) ==
    LET lo == CHOOSE a \in {r.start : r \in S} : \A r \in S : a <= r.start
        hi == CHOOSE b \in {r.end : r \in S} : \A r \in S : b >= r.end
    IN Cardinality({m \in lo..(hi - 1) : \E r \in S : r.start <= m /\ m < r.end})

\* C4: for every (date, device, stage) group of raw segments behind an
\* output row, the hours reported for that stage equal the length of the
\* union of the group's intervals, never the sum of the segment lengths
C4_IntervalUnion ==
    Answered =>
        \A o \in StagedOut : \A s \in RawStages :
            LET G == Group(RespSegments, o.date, o.device, s)
            IN (G # {} /\ \A r \in G : r.start < r.end) =>
                  o[STAGE_KEY[s]] = HoursC(UnionMinutes(G))

\* a pre-aggregated row: one row per night, stage 'asleep', stage hours set
IsPreAggregated(r) ==
    /\ r.stage = "asleep"
    /\ \/ r.deep_sleep_hours # NullNum
       \/ r.rem_sleep_hours # NullNum
       \/ r.light_sleep_hours # NullNum

\* the pre-aggregated rows of the queried range, whatever adapter wrote them
NightlyInRange == {r \in db.sleep : InRange(r, resp.since) /\ IsPreAggregated(r)}

\* C5: when the queried range holds a pre-aggregated row (as the Whoop, Oura
\* and Fitbit adapters emit), every output row comes from such a row and the
\* answer is the one the pre-aggregated rows alone give: no raw segment
\* influences it
C5_PreAggregatedOnly ==
    (Answered /\ NightlyInRange # {}) =>
        /\ \A o \in resp.rows :
              \E r \in NightlyInRange : DateOf(r.recorded_at) = o.date
        /\ \/ resp.api = "pro"
              /\ resp.rows = api_sleep_pro({r \in db.sleep : IsPreAggregated(r)},
                                           resp.since)
           \/ resp.api = "core"
              /\ resp.rows = api_sleep({r \in db.sleep : IsPreAggregated(r)},
                                       resp.since, Devices)

\* a beats b in the device selection: a watch beats a non-watch, and within
\* one class the larger deep+REM total wins
Beats(a, b) ==
    \/ IsWatch(a.device) /\ ~IsWatch(b.device)
    \/ IsWatch(a.device) = IsWatch(b.device) /\ Score(a) > Score(b)

\* the totals of the device an output row was built from
TotalsBehind(o, segs) ==
    CHOOSE c \in TotalsOf(segs) : c.date = o.date /\ c.device = o.device

DetailedSegments == {r \in RespSegments : r.stage # "asleepunspecified"}

ScenarioRows ==
    {AppleRow("asleepdeep", 1380, 1440, "Apple Watch"),
     AppleRow("asleepunspecified", 1350, 1830, "Apple Watch")}

\* exactly these two rows are stored, and a query from 2024-01-15 on is answered
Scenario ==
    /\ Answered
    /\ resp.since = 0
    /\ {Content(r) : r \in db.sleep} = ScenarioRows

-----------------------------------------------------------------------------
(* Two processes migrating one database: an ingest's create_schema and a   *)
(* dashboard start. Here conn and pc hold one value per process and op     *)
(* holds the owner of SQLite's write lock.                                 *)

Procs == {"create_schema", "startup_migrate"}

\* the DELETE opens the process's write transaction: it takes the write lock
\* and reads the committed database
MigDelete(p) ==
    /\ pc[p] = "delete"
    /\ op.lock = "none"
    /\ op' = [lock |-> p]
    /\ conn' = [conn EXCEPT ![p] = [db EXCEPT !.sleep = dedup_delete(@)]]
    /\ pc' = [pc EXCEPT ![p] = "index"]
    /\ hist' = [hist EXCEPT !.last = "deleting"]
    /\ UNCHANGED <<db, resp>>

\* the other process holds the write lock until the busy timeout ends: the
\* DELETE raises "database is locked" (create_schema raises, _startup_migrate
\* prints a warning) and the process has changed nothing
MigLocked(p) ==
    /\ pc[p] = "delete"
    /\ op.lock \notin {"none", p}
    /\ pc' = [pc EXCEPT ![p] = "failed"]
    /\ hist' = [hist EXCEPT !.last = "locked"]
    /\ UNCHANGED <<db, conn, op, resp>>

\* CREATE UNIQUE INDEX IF NOT EXISTS inside the process's transaction
MigIndex(p) ==
    /\ pc[p] = "index"
    /\ IF conn[p].index
       THEN pc' = [pc EXCEPT ![p] = "mig_commit"] /\ UNCHANGED <<conn, op>>
       ELSE IF IndexBuildFails(conn[p].sleep)
       THEN /\ pc' = [pc EXCEPT ![p] = "failed"]
            /\ conn' = [conn EXCEPT ![p] = db]
            /\ op' = [lock |-> "none"]
       ELSE /\ pc' = [pc EXCEPT ![p] = "mig_commit"]
            /\ conn' = [conn EXCEPT ![p].index = TRUE]
            /\ UNCHANGED op
    /\ UNCHANGED <<db, hist, resp>>

\* commit: the transaction becomes the committed database, the lock is freed
MigCommit(p) ==
    /\ pc[p] = "mig_commit"
    /\ db' = conn[p]
    /\ op' = [lock |-> "none"]
    /\ pc' = [pc EXCEPT ![p] = "done"]
    /\ hist' = [hist EXCEPT !.last = "migrated"]
    /\ UNCHANGED <<conn, resp>>

\* a database an older version filled, and both processes about to migrate it
InitMig ==
    /\ db \in {LegacyDb(q) : q \in LegacySeqs(MaxLegacy)}
    /\ conn = [p \in Procs |-> db]
    /\ pc = [p \in Procs |-> "delete"]
    /\ op = [lock |-> "none"]
    /\ hist = [NoHist EXCEPT !.pre = db]
    /\ resp = NoResp

NextMig ==
    \E p \in Procs :
        \/ MigDelete(p)
        \/ MigLocked(p)
        \/ MigIndex(p)
        \/ MigCommit(p)

\* the migration run by two processes at once
SpecMig == InitMig /\ [][NextMig]_vars

\* both processes have finished their migration, successfully or not
BothFinished == \A p \in Procs : pc[p] \in {"done", "failed"}

\* C11: when two processes run the sleep dedup migration concurrently, after
\* every interleaving of their steps the database is the one a single run
\* leaves: exactly the earliest row of each key group of the original table
\* remains, no other row is lost, the other tables are untouched and the
\* unique index exists
C11_ConcurrentMigration ==
    BothFinished =>
        /\ db.index
        /\ db.sleep = {r \in hist.pre.sleep :
                         \A q \in hist.pre.sleep :
                            SleepKey(q) = SleepKey(r) => r.id <= q.id}
        /\ db.t = hist.pre.t

\* one process was locked out while the other removed duplicates and kept a
\* row that had none
C11_Witness ==
    /\ BothFinished
    /\ \E p \in Procs : pc[p] = "failed"
    /\ Cardinality(db.sleep) < Cardinality(hist.pre.sleep)
    /\ Cardinality(db.sleep) > 1

-----------------------------------------------------------------------------
(* _insert_many called on its own, with any table name and record list *)

\* the columns of the tables a record can be bound to (id and created_at are
\* filled by the store)
SampleColumns ==
    {"source", "metric", "value", "unit", "recorded_at", "device",
     "active_calories", "avg_cadence", "avg_hr", "max_hr"}

SleepColumns ==
    {"source", "stage", "start", "end", "recorded_at", "device",
     "active_calories", "avg_cadence", "avg_hr", "max_hr",
     "sleep_performance_pct", "time_in_bed_hours", "light_sleep_hours",
     "rem_sleep_hours", "deep_sleep_hours", "awake_hours", "disturbances"}

TableColumns ==
    [heart_rate |-> SampleColumns, hrv |-> SampleColumns, sleep |-> SleepColumns]

\* the NOT NULL columns of heart_rate and hrv
SampleRequired == {"source", "metric", "value", "recorded_at"}

\* None, as the column's type encodes it
NullOf(k) ==
    IF k \in {"value", "active_calories", "avg_cadence", "avg_hr", "max_hr"}
    THEN NullNum
    ELSE IF k \in {"recorded_at", "start", "end"} THEN NullTime ELSE NULL

\* keys = list(rows[0].keys())
InsertKeys(rows) == DOMAIN rows[1]

\* tuple(row.get(k) for k in keys)
BoundValues(row, keys) ==
    [k \in keys |-> IF k \in DOMAIN row THEN row[k] ELSE NullOf(k)]

\* a bound heart_rate / hrv row that no NOT NULL column makes the store ignore
SampleStorable(b) ==
    \A k \in SampleRequired : k \in DOMAIN b /\ b[k] # NullOf(k)

\* the rows executemany hands to the store and the store does not ignore for
\* a NOT NULL column (sleep rows: InsertSleepRow decides)
BoundRows(table, rows) ==
    LET bound == [i \in 1..Len(rows) |-> BoundValues(rows[i], InsertKeys(rows))]
    IN IF table = "sleep" THEN bound ELSE SelectSeq(bound, SampleStorable)

\* the exception _insert_many raises: sqlite3 finds no such table, or no
\* column named like a key of the first row
insert_many_raises(v, table, rows) ==
    IF rows = <<>> THEN "none"
    ELSE IF ~v.schema \/ table \notin DOMAIN TableColumns THEN "OperationalError"
    ELSE IF ~(InsertKeys(rows) \subseteq TableColumns[table]) THEN "OperationalError"
    ELSE "none"

\* the connection's view after _insert_many(conn, table, rows)
insert_many_view(v, table, rows) ==
    IF rows = <<>> \/ insert_many_raises(v, table, rows) # "none" THEN v
    ELSE insert_many(v, table, BoundRows(table, rows))

\* return len(rows)
insert_many_returns(rows) == Len(rows)

\* heart-rate records as the adapters emit them, and malformed ones
Sample(value, device) ==
    [source |-> "apple_health", metric |-> "heart_rate", value |-> value,
     unit |-> "count/min", recorded_at |-> 480, device |-> device]

SampleNoDevice(value) ==
    [source |-> "apple_health", metric |-> "heart_rate", value |-> value,
     unit |-> "count/min", recorded_at |-> 480]

SampleUnknownCol(value) ==
    [source |-> "apple_health", metric |-> "heart_rate", value |-> value,
     unit |-> "count/min", recorded_at |-> 480, device |-> "Apple Watch",
     unknown_col |-> "should_be_dropped"]

\* the record lists handed to _insert_many
InsertLists ==
    { <<>>,
      << Sample(72, "Apple Watch") >>,
      << Sample(72, "Apple Watch"), Sample(72, "Apple Watch") >>,
      << Sample(72, "Apple Watch"), Sample(NullNum, "Apple Watch") >>,
      << SampleUnknownCol(72) >>,
      << Sample(72, "Apple Watch"), SampleUnknownCol(80) >>,
      << SampleNoDevice(72), Sample(81, "Apple Watch") >>,
      << [col |-> "val"] >>,
      << AppleRow("asleepdeep", 1380, 1440, "Apple Watch") >>,
      << AppleRow("asleepdeep", 1380, 1440, "Apple Watch"),
         AppleRow("asleepdeep", 1380, 1440, "Apple Watch") >>,
      << AppleRow("asleepdeep", 1380, 1440, "Apple Watch"),
         AppleRow("asleepcore", 1440, 1470, "Apple Watch") >> }

\* the table names handed to _insert_many
InsertTables == {"heart_rate", "hrv", "sleep", "malicious_table"}

\* _insert_many(conn, table, rows) on a connection to a created database
InsertMany ==
    /\ pc = "idle"
    /\ hist.calls < MaxCalls
    /\ \E table \in InsertTables, rows \in InsertLists :
         /\ conn' = insert_many_view(conn, table, rows)
         /\ resp' = [api |-> "insert_many", since |-> 0, rows |-> {},
                     table |-> table, records |-> rows,
                     raised |-> insert_many_raises(conn, table, rows),
                     returned |-> insert_many_returns(rows)]
         /\ pc' = IF insert_many_raises(conn, table, rows) = "none"
                  THEN "inserted" ELSE "idle"
    /\ hist' = [hist EXCEPT !.calls = @ + 1, !.pre = conn, !.last = "called"]
    /\ UNCHANGED <<db, op>>

\* the caller commits
InsertCommit ==
    /\ pc = "inserted"
    /\ db' = conn
    /\ pc' = "idle"
    /\ hist' = [hist EXCEPT !.last = "committed"]
    /\ UNCHANGED <<conn, op, resp>>

\* the caller closes the connection without commit
InsertClose ==
    /\ pc = "inserted"
    /\ conn' = db
    /\ pc' = "idle"
    /\ hist' = [hist EXCEPT !.last = "closed"]
    /\ UNCHANGED <<db, op, resp>>

\* a database create_schema has just made
InitInsert ==
    /\ db = [EmptyDb EXCEPT !.schema = TRUE, !.index = TRUE]
    /\ conn = db
    /\ pc = "idle"
    /\ op = NoOp
    /\ hist = NoHist
    /\ resp = NoResp

NextInsert ==
    \/ InsertMany
    \/ InsertCommit
    \/ InsertClose

\* _insert_many as the tests call it
SpecInsert == InitInsert /\ [][NextInsert]_vars

-----------------------------------------------------------------------------
(* Properties of _insert_many, checked under SpecInsert (C15: under Spec) *)

\* _insert_many has just returned or raised; hist.pre is the connection's
\* view before the call, conn its view after
InsertCalled == resp.api = "insert_many" /\ hist.last = "called"

\* the allow-list: the canonical tables of the schema
CanonicalTables == OtherTables \cup {"sleep"}

\* C12: _insert_many with a table name outside the allow-list of canonical
\* tables and a non-empty record list fails with the typed 'Unknown table'
\* error (ValueError) and writes nothing
C12_UnknownTableRejected ==
    (InsertCalled /\ resp.table \notin CanonicalTables /\ resp.records # <<>>) =>
        /\ resp.raised = "ValueError"
        /\ conn = hist.pre

\* a heart_rate / hrv record with every required field, whatever else it carries
IsSampleRecord(r) ==
    \A k \in {"source", "metric", "value", "recorded_at"} :
        k \in DOMAIN r /\ r[k] # NullOf(k)

\* the rows the call appended to its heart_rate / hrv table
Appended ==
    SubSeq(conn.t[resp.table], Len(hist.pre.t[resp.table]) + 1,
           Len(conn.t[resp.table]))

\* C13: _insert_many on heart_rate or hrv never fails because a record
\* carries a key that is no column: for every record of the list, not only
\* the first, the unknown key is dropped and the record's known fields are
\* inserted; no stored row has a field that is no column
C13_UnknownKeysDropped ==
    (/\ InsertCalled
     /\ resp.table \in {"heart_rate", "hrv"}
     /\ resp.records # <<>>
     /\ \A i \in 1..Len(resp.records) : IsSampleRecord(resp.records[i])) =>
        /\ resp.raised = "none"
        /\ Len(Appended) = Len(resp.records)
        /\ \A i \in 1..Len(Appended) :
              /\ DOMAIN Appended[i] \subseteq SampleColumns
              /\ \A k \in (DOMAIN resp.records[i]) \cap SampleColumns :
                    k \in DOMAIN Appended[i] /\ Appended[i][k] = resp.records[i][k]

\* the number of rows the call added to its table
AddedRows ==
    IF resp.table = "sleep"
    THEN Cardinality(conn.sleep) - Cardinality(hist.pre.sleep)
    ELSE IF resp.table \in DOMAIN conn.t
    THEN Len(conn.t[resp.table]) - Len(hist.pre.t[resp.table])
    ELSE 0

\* C14: the count _insert_many returns equals the number of rows the call
\* added to the table (records the store skipped are not counted); an empty
\* record list returns 0 and leaves the store unchanged
C14_CountIsRowsAdded ==
    (InsertCalled /\ resp.raised = "none") =>
        /\ resp.returned = AddedRows
        /\ resp.records = <<>> => (resp.returned = 0 /\ conn = hist.pre)

\* C15: ingesting the same export a second time leaves the heart_rate and
\* hrv tables with the rows they had after the first ingest
C15_SamplesReimport ==
    (hist.last = "ingested" /\ hist.again) =>
        /\ db.t["heart_rate"] = hist.pre.t["heart_rate"]
        /\ db.t["hrv"] = hist.pre.t["hrv"]

-----------------------------------------------------------------------------
(* Further properties of the read path, checked under SpecSleep *)

\* deep + rem + light of a pre-aggregated row, NULL read as 0
NightTotal(r) ==
    CoalesceNum(r.deep_sleep_hours) + CoalesceNum(r.rem_sleep_hours)
        + CoalesceNum(r.light_sleep_hours)

\* C16: when several pre-aggregated rows fall on one calendar date, the
\* answer holds for that date the values of a single row with the largest
\* deep+rem+light total, nothing averaged or summed across the rows
C16_LargestNightKept ==
    Answered =>
        \A d \in {DateOf(r.recorded_at) : r \in PreAggRows(db.sleep, resp.since)} :
            LET G == {r \in PreAggRows(db.sleep, resp.since) :
                         DateOf(r.recorded_at) = d}
            IN \E r \in G :
                  /\ \A q \in G : NightTotal(q) <= NightTotal(r)
                  /\ \E o \in resp.rows :
                        /\ o.date = d
                        /\ o.deep = CoalesceNum(r.deep_sleep_hours)
                        /\ o.rem = CoalesceNum(r.rem_sleep_hours)
                        /\ o.light = CoalesceNum(r.light_sleep_hours)
                        /\ o.awake = CoalesceNum(r.awake_hours)

\* the in_bed intervals of date d in the answered range
InBedOf(d) ==
    {r \in db.sleep : /\ InRange(r, resp.since)
                      /\ r.source = "apple_health"
                      /\ r.stage = "in_bed"
                      /\ DateOf(r.recorded_at) = d
                      /\ r.start >= 0
                      /\ r.start < r.end}

\* C17: in the last-resort tier the hours returned for a date equal the
\* length of the union of that date's in_bed intervals: overlapping
\* intervals are counted once
C17_InBedUnion ==
    (Answered /\ PreAggRows(db.sleep, resp.since) = {} /\ StagedOut = {}) =>
        \A o \in resp.rows :
            InBedOf(o.date) # {} /\ o.light = HoursC(UnionMinutes(InBedOf(o.date)))

\* C18: every row api_sleep returns, from any tier, has deep + rem + light > 0
C18_NoZeroRows ==
    Answered => \A o \in resp.rows : o.deep + o.rem + o.light > 0

\* a raw stage segment whose end is not later than its start
IsEmptySegment(r) ==
    /\ r.source = "apple_health"
    /\ r.stage \in RawStages
    /\ r.start >= 0
    /\ r.end >= 0
    /\ r.end <= r.start

\* C19: a raw segment with zero or negative duration is discarded before
\* reconciliation: the answer is the one the store without it gives
C19_EmptySegmentsDiscarded ==
    Answered =>
        \A r \in {x \in db.sleep : IsEmptySegment(x)} :
            \/ resp.api = "pro"
               /\ resp.rows = api_sleep_pro(db.sleep \ {r}, resp.since)
            \/ resp.api = "core"
               /\ \E ord \in DeviceOrders :
                     resp.rows = api_sleep(db.sleep \ {r}, resp.since, ord)

-----------------------------------------------------------------------------
(* The read path over any store content: what api_sleep raises *)

\* the rows a SELECT on sleep sees through _q: a missing file or table makes
\* execute raise, and _q answers [] instead
q_sleep(d) == IF d.schema THEN d.sleep ELSE {}

\* sorted() over names with None first; it only gets that far when no date
\* holds None next to a name
SortedDevicesOrNone == <<NULL>> \o SortedDevices

\* sorted(dd.items()): the keys are (date, device) tuples, and two keys of
\* one date compare their devices; None against str raises TypeError
sorted_raises(segs) ==
    \E r, q \in segs :
        /\ DateOf(r.recorded_at) = DateOf(q.recorded_at)
        /\ r.device = NULL
        /\ q.device # NULL

\* the exception api_sleep of leo_pro_dashboard.py ends with, "none" if it returns
api_sleep_pro_raises(d, since) ==
    IF PreAggQuery(q_sleep(d), since) # {} THEN "none"
    ELSE IF sorted_raises(Segments(q_sleep(d), since)) THEN "TypeError"
    ELSE "none"

\* what api_sleep of leo_pro_dashboard.py returns when it does not raise
api_sleep_pro_any(d, since) ==
    IF PreAggQuery(q_sleep(d), since) # {}
    THEN DedupByDate(PreAggQuery(q_sleep(d), since))
    ELSE IF StagedRows(merge_sleep_segments(Segments(q_sleep(d), since)),
                       SortedDevicesOrNone) # {}
         THEN StagedRows(merge_sleep_segments(Segments(q_sleep(d), since)),
                         SortedDevicesOrNone)
         ELSE InBedRows(q_sleep(d), since)

\* the exception api_sleep of leo_health/dashboard.py ends with: past tier 1
\* it opens /tmp/sleep_debug.txt for writing, outside any try
api_sleep_raises(d, since, writable) ==
    IF PreAggQuery(q_sleep(d), since) # {} THEN "none"
    ELSE IF ~writable THEN "OSError"
    ELSE "none"

\* Apple segments of 2024-01-15 and 2024-01-16 with and without a device
\* name, in_bed rows and one Whoop night
ReadRows ==
    << AppleRow("asleepdeep", 1380, 1440, NULL),
       AppleRow("asleepdeep", 1380, 1440, "Apple Watch"),
       AppleRow("asleepcore", 1350, 1830, NULL),
       AppleRow("asleepcore", 1350, 1830, "AutoSleep"),
       AppleRow("asleepunspecified", 1440, 1470, NULL),
       AppleRow("asleeprem", 1440, 1470, "Sleep Watch"),
       AppleRow("in_bed", 1380, 1440, NULL),
       AppleRow("in_bed", 1440, 1470, "Apple Watch"),
       WhoopRow(0, 80, 400, 150, 100, 50) >>

RECURSIVE ReadTablesFrom(_, _)
\* the tables of at most n rows among ReadRows[i..], ids in ReadRows order
ReadTablesFrom(i, n) ==
    IF n = 0 \/ i > Len(ReadRows) THEN {{}}
    ELSE ReadTablesFrom(i + 1, n) \cup
         {t \cup {WithId(ReadRows[i], i)} : t \in ReadTablesFrom(i + 1, n - 1)}

\* the devices of one date in any order the query may return them
ReadOrders ==
    {o \in [1..Len(SortedDevicesOrNone) ->
              {SortedDevicesOrNone[i] : i \in 1..Len(SortedDevicesOrNone)}] :
        \A i, j \in 1..Len(SortedDevicesOrNone) : i # j => o[i] # o[j]}

\* the files on disk next to the database: none written yet
NoFiles == [files |-> {}]

\* with open("/tmp/sleep_debug.txt", "w"): reached when tier 1 gave no rows;
\* the file is replaced by "total rows: n" and one line per (date, device) row
debug_write(files, d, since) ==
    IF PreAggQuery(q_sleep(d), since) # {} THEN files
    ELSE {f \in files : f.name # "/tmp/sleep_debug.txt"} \cup
         {[name |-> "/tmp/sleep_debug.txt",
           total_rows |->
               Cardinality(summed_sleep_segments(Segments(q_sleep(d), since)))]}

\* GET /api/sleep of leo_pro_dashboard.py, exceptions included
ReadSleepPro ==
    /\ \E since \in Sinces :
         resp' = [api |-> "pro", since |-> since,
                  raised |-> api_sleep_pro_raises(db, since),
                  rows |-> IF api_sleep_pro_raises(db, since) = "none"
                           THEN api_sleep_pro_any(db, since) ELSE {}]
    /\ UNCHANGED <<db, conn, pc, op, hist>>

\* GET /api/sleep of leo_health/dashboard.py, exceptions included
ReadSleepCore ==
    /\ \E since \in Sinces, ord \in ReadOrders, writable \in BOOLEAN :
         /\ resp' = [api |-> "core", since |-> since,
                     raised |-> api_sleep_raises(db, since, writable),
                     rows |-> IF api_sleep_raises(db, since, writable) = "none"
                              THEN api_sleep(q_sleep(db), since, ord) ELSE {}]
         /\ op' = [files |-> IF writable THEN debug_write(op.files, db, since)
                             ELSE op.files]
    /\ UNCHANGED <<db, conn, pc, hist>>

\* any store: no file or tables yet, or a sleep table of at most MaxRows rows
InitRead ==
    /\ db \in {EmptyDb} \cup
              {[schema |-> TRUE, index |-> TRUE, seq |-> Len(ReadRows),
                sleep |-> t, t |-> [n \in OtherTables |-> <<>>]]
               : t \in ReadTablesFrom(1, MaxRows)}
    /\ conn = db
    /\ pc = "idle"
    /\ op = NoFiles
    /\ hist = NoHist
    /\ resp = NoResp

NextRead ==
    \/ ReadSleepPro
    \/ ReadSleepCore

SpecRead == InitRead /\ [][NextRead]_vars

\* C20: whatever the store holds - no database or tables, a NULL device next
\* to named devices on one date - api_sleep returns a (possibly empty) result
\* and raises nothing
C20_ReadNeverRaises ==
    Answered => resp.raised = "none"

\* C21: api_sleep has no side effect: a call changes no stored row and
\* writes no file, so store and filesystem are as before the call
C21_ReadNoSideEffect ==
    [][db' = db /\ conn' = conn /\ op' = op]_vars

-----------------------------------------------------------------------------
(* ingest_all: several sources in one call *)

\* the if-blocks of ingest_all in their order, with the export each parses
AllSources == <<"apple_health", "whoop", "fitbit", "oura">>

ExportOf(src) ==
    CASE src = "apple_health" -> "apple_night"
      [] src = "whoop" -> "whoop"
      [] src = "fitbit" -> "fitbit"
      [] src = "oura" -> "oura"

\* what parse / parse_folder raises on a container without its payload:
\* a zip without export.xml, a folder without CSV files, an unreadable zip
ContainerError(src) ==
    IF src = "fitbit" THEN "BadZipFile" ELSE "FileNotFoundError"

RECURSIVE InsertSteps(_, _, _)
\* the _insert_many calls of ingest_<source> from step i on
InsertSteps(v, e, i) ==
    LET src == Exports[e].source
    IN IF i > Len(IngestOrder(src)) THEN v
       ELSE InsertSteps(insert_many(v, IngestOrder(src)[i][1],
                                    BatchRows(src, Exports[e].data,
                                              IngestOrder(src)[i][2])),
                        e, i + 1)

\* ingest_<source>(data, db_path) run to its commit: create_schema with its
\* migration, then the inserts
ingest_source(d, e) ==
    InsertSteps([d EXCEPT !.schema = TRUE, !.sleep = dedup_delete(@),
                          !.index = TRUE], e, 1)

\* ingest_all(...) is called: every source is absent, a good container, or
\* a container without its payload
AllCall ==
    /\ pc = "idle"
    /\ hist.calls = 0
    /\ \E args \in [{AllSources[i] : i \in 1..Len(AllSources)} ->
                        {"absent", "good", "no_payload"}] :
          op' = [args |-> args, i |-> 1]
    /\ pc' = "all"
    /\ resp' = [api |-> "ingest_all", since |-> 0, rows |-> {},
                results |-> {}, raised |-> "none"]
    /\ hist' = [hist EXCEPT !.calls = 1, !.pre = db, !.last = "called"]
    /\ UNCHANGED <<db, conn>>

\* one if-block: skip an absent source; parse and ingest a good one and put
\* its counts in results; a parse that raises ends ingest_all there
AllStep ==
    /\ pc = "all"
    /\ op.i <= Len(AllSources)
    /\ LET src == AllSources[op.i]
       IN CASE op.args[src] = "absent" ->
                 /\ op' = [op EXCEPT !.i = @ + 1]
                 /\ UNCHANGED <<db, conn, pc, resp, hist>>
            [] op.args[src] = "good" ->
                 /\ db' = ingest_source(db, ExportOf(src))
                 /\ conn' = db'
                 /\ resp' = [resp EXCEPT !.results = @ \cup {src}]
                 /\ op' = [op EXCEPT !.i = @ + 1]
                 /\ UNCHANGED <<pc, hist>>
            [] op.args[src] = "no_payload" ->
                 /\ resp' = [resp EXCEPT !.raised = ContainerError(src)]
                 /\ pc' = "idle"
                 /\ hist' = [hist EXCEPT !.last = "failed"]
                 /\ UNCHANGED <<db, conn, op>>

\* return results
AllReturn ==
    /\ pc = "all"
    /\ op.i > Len(AllSources)
    /\ pc' = "idle"
    /\ hist' = [hist EXCEPT !.last = "returned"]
    /\ UNCHANGED <<db, conn, op, resp>>

InitAll ==
    /\ db = EmptyDb
    /\ conn = db
    /\ pc = "idle"
    /\ op = NoOp
    /\ hist = NoHist
    /\ resp = NoResp

NextAll ==
    \/ AllCall
    \/ AllStep
    \/ AllReturn

SpecAll == InitAll /\ [][NextAll]_vars

\* ingest_all has ended, by return or by an exception
AllEnded == resp.api = "ingest_all" /\ pc = "idle"

\* C22: a container-level failure of one requested source does not abort
\* the others: every other requested source is parsed, stored and reported
C22_OtherSourcesIngested ==
    AllEnded =>
        \A i \in 1..Len(AllSources) :
            op.args[AllSources[i]] = "good" =>
                /\ \E r \in db.sleep : r.source = AllSources[i]
                /\ AllSources[i] \in resp.results
                /\ resp.raised = "none"

-----------------------------------------------------------------------------
(* The adapters' record loops: apple_health._handle_record and
   fitbit._parse_heart_file over raw records *)

\* raw records of one input file
MaxRecords == 2

\* a raw heart-rate record: an XML element's attributes (Apple) or a JSON
\* entry (Fitbit). shape "string" is a JSON entry that is no object; value
\* "<missing>" is an absent attribute / null, "<object>" a nested object
RawRecords(adapter) ==
    IF adapter = "apple_health"
    THEN [shape : {"object"}, value : {"62", "abc", "", "<missing>"},
          date : {"2024-01-15", "garbage", ""}]
    ELSE [shape : {"object", "string"}, value : {"62", "abc", "<missing>", "<object>"},
          date : {"2024-01-15", "garbage"}]

\* _iso: a date no format matches comes back as it is
iso(date) == IF date = "2024-01-15" THEN "2024-01-15T00:00:00" ELSE date

\* float(x) of a raw value: the number, or the exception it raises
float_raises(value) ==
    CASE value \in {"abc", ""} -> "ValueError"
      [] value = "<object>" -> "TypeError"
      [] OTHER -> "none"

float_of(value) == IF value = "62" THEN 62 ELSE 0

\* _handle_record on one heart-rate Record: float(attrs.get("value", 0))
\* outside any try; the element is appended whatever its startDate
apple_record(r) ==
    IF r.value # "<missing>" /\ float_raises(r.value) # "none"
    THEN [raised |-> float_raises(r.value), out |-> <<>>]
    ELSE [raised |-> "none",
          out |-> <<[value |-> float_of(r.value), recorded_at |-> iso(r.date)]>>]

\* one entry of _parse_heart_file: entry.get on a non-object raises; a
\* falsy restingHeartRate or date skips the entry; float(rhr) is unguarded
fitbit_record(r) ==
    IF r.shape # "object" THEN [raised |-> "AttributeError", out |-> <<>>]
    ELSE IF r.value = "<missing>" \/ r.date = "" THEN [raised |-> "none", out |-> <<>>]
    ELSE IF float_raises(r.value) # "none"
    THEN [raised |-> float_raises(r.value), out |-> <<>>]
    ELSE [raised |-> "none",
          out |-> <<[value |-> float_of(r.value), recorded_at |-> iso(r.date)]>>]

RECURSIVE parse_records(_, _, _)
\* the loop over the input: the first exception ends the whole parse
parse_records(adapter, input, acc) ==
    IF input = <<>> THEN [raised |-> "none", out |-> acc]
    ELSE LET one == IF adapter = "apple_health" THEN apple_record(Head(input))
                    ELSE fitbit_record(Head(input))
         IN IF one.raised # "none" THEN [raised |-> one.raised, out |-> <<>>]
            ELSE parse_records(adapter, Tail(input), acc \o one.out)

RECURSIVE RawInputs(_, _)
\* the inputs of at most n raw records
RawInputs(adapter, n) ==
    IF n = 0 THEN {<<>>}
    ELSE RawInputs(adapter, n - 1) \cup
         {Append(q, r) : q \in {u \in RawInputs(adapter, n - 1) : Len(u) = n - 1},
                         r \in RawRecords(adapter)}

\* parse(path) of one adapter on one input
Parse ==
    /\ pc = "idle"
    /\ hist.calls = 0
    /\ \E adapter \in {"apple_health", "fitbit"} :
         \E input \in RawInputs(adapter, MaxRecords) :
            /\ op' = [adapter |-> adapter, input |-> input]
            /\ resp' = [api |-> "parse", since |-> 0, rows |-> {},
                        raised |-> parse_records(adapter, input, <<>>).raised,
                        records |-> parse_records(adapter, input, <<>>).out]
    /\ hist' = [hist EXCEPT !.calls = @ + 1, !.last = "called"]
    /\ UNCHANGED <<db, conn, pc>>

InitParse ==
    /\ db = EmptyDb
    /\ conn = db
    /\ pc = "idle"
    /\ op = NoOp
    /\ hist = NoHist
    /\ resp = NoResp

NextParse == Parse

SpecParse == InitParse /\ [][NextParse]_vars

\* a record with a numeric value and a parseable date
WellFormed(r) == r.shape = "object" /\ r.value = "62" /\ r.date = "2024-01-15"

\* C23: parse never raises because of a malformed record: the record is
\* dropped and every well-formed record of the input is returned
C23_MalformedDropped ==
    resp.api = "parse" =>
        /\ resp.raised = "none"
        /\ resp.records =
              [i \in 1..Len(SelectSeq(op.input, WellFormed)) |->
                  [value |-> 62, recorded_at |-> "2024-01-15T00:00:00"]]

-----------------------------------------------------------------------------
(* HRV on the read path: api_hrv and the hrv field of api_summary *)

\* an hrv row as an adapter emits it; value in ms
HrvRow(source, metric, value, at) ==
    [source |-> source, metric |-> metric, value |-> value, recorded_at |-> at]

\* Apple and Whoop label their samples hrv_sdnn, Fitbit and Oura hrv_rmssd
HrvRows ==
    << HrvRow("apple_health", "hrv_sdnn", 40, 480),
       HrvRow("apple_health", "hrv_sdnn", 55, 600),
       HrvRow("apple_health", "hrv_sdnn", 48, 1920),
       HrvRow("whoop", "hrv_sdnn", 62, 420),
       HrvRow("fitbit", "hrv_rmssd", 30, 0),
       HrvRow("fitbit", "hrv_rmssd", 33, 1440),
       HrvRow("oura", "hrv_rmssd", 25, 0),
       HrvRow("oura", "hrv_rmssd", 21, 1440) >>

HrvSources == <<"apple_health", "fitbit", "oura", "whoop">>

RECURSIVE HrvTablesFrom(_, _)
\* the hrv tables of at most n rows among HrvRows[i..]
HrvTablesFrom(i, n) ==
    IF n = 0 \/ i > Len(HrvRows) THEN {{}}
    ELSE HrvTablesFrom(i + 1, n) \cup
         {t \cup {[id |-> i, row |-> HrvRows[i]]} : t \in HrvTablesFrom(i + 1, n - 1)}

\* ROUND(AVG(value),1) over the stored rows S, in tenths of a ms
AvgTenths(S) ==
    RoundDiv(10 * SumOver(S, [x \in S |-> x.row.value]), Cardinality(S))

\* FROM hrv WHERE recorded_at >= ?
HrvInRange(hrv, since) == {x \in hrv : InRange(x.row, since)}

\* api_summary: SELECT ROUND(AVG(value),1) FROM hrv WHERE recorded_at>=?;
\* AVG over no rows is NULL and the field is None
summary_hrv(hrv, since) ==
    IF HrvInRange(hrv, since) = {} THEN NullNum
    ELSE AvgTenths(HrvInRange(hrv, since))

\* the group of one (date, source) of api_hrv's query
HrvGroup(hrv, since, d, src) ==
    {x \in HrvInRange(hrv, since) :
        DateOf(x.row.recorded_at) = d /\ x.row.source = src}

\* api_hrv: one row per (date, source), then one per date: the first the
\* query returned for that date (ord is the order of the sources within a
\* date), replaced by apple_health's whenever that comes
api_hrv(hrv, since, ord) ==
    LET Has(d, i) == HrvGroup(hrv, since, d, ord[i]) # {}
        Pick(d) == IF HrvGroup(hrv, since, d, "apple_health") # {}
                   THEN "apple_health"
                   ELSE ord[CHOOSE i \in 1..Len(HrvSources) :
                              Has(d, i) /\ \A j \in 1..(i - 1) : ~Has(d, j)]
    IN {[date |-> d, source |-> Pick(d),
         value |-> AvgTenths(HrvGroup(hrv, since, d, Pick(d)))]
        : d \in {DateOf(x.row.recorded_at) : x \in HrvInRange(hrv, since)}}

HrvOrders ==
    {o \in [1..Len(HrvSources) -> {HrvSources[i] : i \in 1..Len(HrvSources)}] :
        \A i, j \in 1..Len(HrvSources) : i # j => o[i] # o[j]}

\* GET /api/hrv
ApiHrv ==
    /\ \E since \in Sinces, ord \in HrvOrders :
         resp' = [api |-> "hrv", since |-> since, rows |-> api_hrv(db.t.hrv, since, ord)]
    /\ UNCHANGED <<db, conn, pc, op, hist>>

\* GET /api/summary, its hrv field
ApiSummary ==
    /\ \E since \in Sinces :
         resp' = [api |-> "summary", since |-> since, rows |-> {},
                  hrv |-> summary_hrv(db.t.hrv, since)]
    /\ UNCHANGED <<db, conn, pc, op, hist>>

\* a store whose hrv table holds at most MaxRows rows
InitHrv ==
    /\ db \in {[EmptyDb EXCEPT !.schema = TRUE, !.index = TRUE, !.t.hrv = t]
               : t \in HrvTablesFrom(1, MaxRows)}
    /\ conn = db
    /\ pc = "idle"
    /\ op = NoOp
    /\ hist = NoHist
    /\ resp = NoResp

NextHrv ==
    \/ ApiHrv
    \/ ApiSummary

SpecHrv == InitHrv /\ [][NextHrv]_vars

\* C24: no HRV figure averages hrv_sdnn with hrv_rmssd: each api_hrv row
\* and the hrv field of api_summary is an average over samples of one metric
C24_HrvMetricsNotMixed ==
    /\ resp.api = "summary" /\ resp.hrv # NullNum =>
          \E m \in {"hrv_sdnn", "hrv_rmssd"} :
             LET S == {x \in HrvInRange(db.t.hrv, resp.since) : x.row.metric = m}
             IN S # {} /\ resp.hrv = AvgTenths(S)
    /\ resp.api = "hrv" =>
          \A o \in resp.rows :
             \E m \in {"hrv_sdnn", "hrv_rmssd"} :
                LET S == {x \in HrvInRange(db.t.hrv, resp.since) :
                             x.row.metric = m /\ x.row.source = o.source
                             /\ DateOf(x.row.recorded_at) = o.date}
                IN S # {} /\ o.value = AvgTenths(S)

-----------------------------------------------------------------------------
(* Workout routes: apple_health.parse, ingest_apple_health, api_workout_route *)

\* a workout's recorded_at, _iso of its startDate: local date, hour and
\* minute (minutes since 2024-01-15T00:00), seconds, UTC offset in minutes
WorkoutStarts ==
    [minute : {450, 451, 1170}, sec : {0, 12}, offset : {-300, 0, 60}]

\* the .gpx files of an export: the timestamp embedded in the name
\* (route_YYYY-MM-DD_HH-MM-SS.gpx, local time without offset) and the fixes
GpxFiles ==
    [minute : {450, 451, 1170}, sec : {45}, points : {{"fix1", "fix2"}}]

NoGpx == [minute |-> -1, sec |-> 0, points |-> {}]

\* SUBSTR(ts, 1, 16): 'YYYY-MM-DDTHH:MM', the local date, hour and minute
Substr16(ts) == ts.minute

\* _parse_gpx: one routes entry per fix, workout_start from the file name
parse_gpx(g) ==
    {[workout_start |-> [minute |-> g.minute, sec |-> g.sec], timestamp |-> f]
        : f \in g.points}

\* apple_health.parse: the .gpx files are opened with zf.open after the
\* with-block has closed the archive, which raises ValueError
parse_raises(g) == IF g # NoGpx THEN "ValueError" ELSE "none"

\* ingest_apple_health(data): heart_rate, hrv, sleep and workouts are
\* inserted and committed; data["routes"] is never read
ingest_apple_workout(d, w, routes) ==
    insert_many([d EXCEPT !.schema = TRUE, !.index = TRUE], "workouts",
                <<[source |-> "apple_health", recorded_at |-> w]>>)

\* api_workout_route: WHERE SUBSTR(workout_start,1,16) = SUBSTR(?,1,16)
api_workout_route(d, start) ==
    {[time |-> d.t["workout_routes"][i].timestamp]
        : i \in {j \in 1..Len(d.t["workout_routes"]) :
                    Substr16(d.t["workout_routes"][j].workout_start) = Substr16(start)}}

\* an export with a workout and at most one route is ingested: through
\* parse(zip) as ingest_all does, or as parsed data handed to ingest_apple_health
RouteIngest ==
    /\ pc = "idle"
    /\ hist.calls = 0
    /\ \E w \in WorkoutStarts, g \in GpxFiles \cup {NoGpx}, via \in {"zip", "data"} :
         /\ op' = [workout |-> w, gpx |-> g, via |-> via]
         /\ IF via = "zip" /\ parse_raises(g) # "none"
            THEN /\ resp' = [api |-> "ingest", since |-> 0, rows |-> {},
                             raised |-> parse_raises(g)]
                 /\ UNCHANGED db
            ELSE /\ resp' = [api |-> "ingest", since |-> 0, rows |-> {},
                             raised |-> "none"]
                 /\ db' = ingest_apple_workout(db, w, parse_gpx(g))
    /\ conn' = db'
    /\ hist' = [hist EXCEPT !.calls = 1, !.pre = db, !.last = "ingested"]
    /\ UNCHANGED pc

\* GET /api/workout-route?start=<workout.recorded_at>
ApiWorkoutRoute ==
    /\ hist.calls = 1
    /\ \E i \in 1..Len(db.t["workouts"]) :
         resp' = [api |-> "workout_route", since |-> 0,
                  start |-> db.t["workouts"][i].recorded_at,
                  rows |-> api_workout_route(db, db.t["workouts"][i].recorded_at)]
    /\ UNCHANGED <<db, conn, pc, op, hist>>

InitRoute ==
    /\ db = [schema |-> TRUE, index |-> TRUE, seq |-> 0, sleep |-> {},
             t |-> [n \in OtherTables \cup {"workout_routes"} |-> <<>>]]
    /\ conn = db
    /\ pc = "idle"
    /\ op = NoOp
    /\ hist = NoHist
    /\ resp = NoResp

NextRoute ==
    \/ RouteIngest
    \/ ApiWorkoutRoute

SpecRoute == InitRoute /\ [][NextRoute]_vars

\* C25: after ingesting an export with a workout and a route whose file-name
\* timestamp has the workout's local date, hour and minute, the route query
\* for the workout's recorded_at returns that route's points, whatever the
\* offset and seconds
C25_RouteFound ==
    (resp.api = "workout_route" /\ op.gpx # NoGpx
       /\ Substr16(op.gpx) = Substr16(resp.start)) =>
        resp.rows = {[time |-> f] : f \in op.gpx.points}

-----------------------------------------------------------------------------
(* Sleep efficiency as the adapters store it *)

\* raw efficiency values of an export in units of 0.0001: 0.5, 0.87, 0.8764,
\* 1.0, 2.0, 87, 87.25 and 100; NullNum is an empty field
EfficiencyRaws == {5000, 8700, 8764, 10000, 20000, 870000, 872500, 1000000, NullNum}

\* whoop._parse_sleep_row and oura._parse_sleep_row: a value <= 1.0 becomes
\* round(value * 100, 1); the result is a percentage in units of 0.0001
normalize_pct(raw) ==
    IF raw = NullNum THEN NullNum
    ELSE IF raw <= 10000 THEN 1000 * RoundDiv(raw, 10)
    ELSE raw

\* the value stored; fitbit._parse_sleep_file keeps float(efficiency) as it is
sleep_performance_pct(adapter, raw) ==
    IF adapter = "fitbit" THEN raw ELSE normalize_pct(raw)

RECURSIVE RawEfficiencies(_)
\* the sleep files of at most n rows, by their efficiency column
RawEfficiencies(n) ==
    IF n = 0 THEN {<<>>}
    ELSE RawEfficiencies(n - 1) \cup
         {Append(q, r) : q \in {u \in RawEfficiencies(n - 1) : Len(u) = n - 1},
                         r \in EfficiencyRaws}

\* one adapter parses one sleep file
ParseSleep ==
    /\ pc = "idle"
    /\ hist.calls = 0
    /\ \E adapter \in {"whoop", "oura", "fitbit"}, input \in RawEfficiencies(MaxRecords) :
         /\ op' = [adapter |-> adapter, input |-> input]
         /\ resp' = [api |-> "parse_sleep", since |-> 0, rows |-> {},
                     pct |-> [i \in 1..Len(input) |->
                                 sleep_performance_pct(adapter, input[i])]]
    /\ hist' = [hist EXCEPT !.calls = 1, !.last = "called"]
    /\ UNCHANGED <<db, conn, pc>>

InitEff ==
    /\ db = EmptyDb
    /\ conn = db
    /\ pc = "idle"
    /\ op = NoOp
    /\ hist = NoHist
    /\ resp = NoResp

NextEff == ParseSleep

SpecEff == InitEff /\ [][NextEff]_vars

\* the 0-100 value of a raw efficiency, in units of 0.0001
OnPercentScale(raw) == IF raw <= 10000 THEN 100 * raw ELSE raw

\* C26: every adapter stores sleep efficiency on the 0-100 scale: a raw
\* value <= 1.0 is multiplied by 100 (to one decimal), a larger one is kept
C26_EfficiencyOnPercentScale ==
    resp.api = "parse_sleep" =>
        \A i \in 1..Len(op.input) :
            op.input[i] # NullNum =>
                /\ resp.pct[i] - OnPercentScale(op.input[i]) <= 500
                /\ OnPercentScale(op.input[i]) - resp.pct[i] <= 500

-----------------------------------------------------------------------------
(* The folder watcher: watcher.py, with a writer copying exports into the
   watched folder *)

\* restarts of the watcher process
MaxRestarts == 1

\* the entries of the watched folder, in the order iterdir yields them
WatchNames == <<"export.zip", "whoop_a.csv", "whoop_b.csv">>

\* a file is written in two blocks: its first 64 KB (head) and the rest
\* (tail); n is the number of blocks on disk, 2 for a complete file
NoFile == [head |-> "none", tail |-> "none", n |-> -1]

\* the contents a writer may copy under each name: the two Whoop exports
\* begin with the same 64 KB and differ after them
ContentsOf(name) ==
    IF name = "export.zip" THEN {[head |-> "zip_head", tail |-> "zip_tail"]}
    ELSE {[head |-> "csv_head", tail |-> t] : t \in {"rows_jan", "rows_feb"}}

\* filepath.stat().st_size, in blocks
st_size(f) == f.n

\* _file_hash: MD5 of f.read(65536); MD5 is taken as injective on the bytes
\* it is fed
file_hash(f) == IF f.n >= 1 THEN f.head ELSE "md5_of_nothing"

\* the bytes on disk: what a whole-file digest would be computed from
Bytes(f) ==
    CASE f.n = 2 -> <<f.head, f.tail>>
      [] f.n = 1 -> <<f.head>>
      [] OTHER -> <<>>

\* a restart that starts from an empty set
load_processed_nothing(log) == {}

\* _load_processed: the lines of processed.txt
load_processed(log) == log

\* apple_health.parse / whoop_parser.parse on the bytes on disk: a zip cut
\* short has no central directory and raises BadZipFile; a CSV cut short
\* parses to the rows it holds
process_raises(name, f) ==
    IF name = "export.zip" /\ f.n < 2 THEN "BadZipFile" ELSE "none"

\* the table ingest_<source> appends the parsed records to
IngestTable(name) == IF name = "export.zip" THEN "heart_rate" ELSE "whoop_recovery"

\* the watcher process is not running
WatcherDown ==
    [mem |-> {}, i |-> 0, size1 |-> 0, fhash |-> "none"]

\* a writer starts copying an export into the folder
WriterCreate ==
    /\ \E name \in DOMAIN op.files :
         /\ op.files[name] = NoFile
         /\ \E c \in ContentsOf(name) :
              op' = [op EXCEPT !.files[name] = [head |-> c.head, tail |-> c.tail, n |-> 0]]
    /\ UNCHANGED <<db, conn, pc, hist, resp>>

\* the writer copies the next block
WriterAppend ==
    /\ \E name \in DOMAIN op.files :
         /\ op.files[name] # NoFile
         /\ op.files[name].n < 2
         /\ op' = [op EXCEPT !.files[name].n = @ + 1]
    /\ UNCHANGED <<db, conn, pc, hist, resp>>

\* watch(): processed = _load_processed(), then the loop
WatchStart ==
    /\ pc = "down"
    /\ conn' = [WatcherDown EXCEPT !.mem = load_processed(op.log)]
    /\ pc' = "idle"
    /\ UNCHANGED <<db, op, hist, resp>>

\* scan_once begins: entries = list(watch_folder.iterdir())
ScanStart ==
    /\ pc = "idle"
    /\ hist.calls < MaxCalls
    /\ conn' = [conn EXCEPT !.i = 1]
    /\ pc' = "entry"
    /\ hist' = [hist EXCEPT !.calls = @ + 1, !.last = "scanning"]
    /\ UNCHANGED <<db, op, resp>>

\* the for loop reaches its next entry, or scan_once returns; an entry that
\* does not exist yet is not in the listing
NextEntry ==
    /\ pc = "entry"
    /\ IF conn.i > Len(WatchNames)
       THEN pc' = "idle" /\ conn' = [conn EXCEPT !.i = 0]
       ELSE IF op.files[WatchNames[conn.i]] = NoFile
       THEN pc' = "entry" /\ conn' = [conn EXCEPT !.i = @ + 1]
       ELSE /\ pc' = "sleep"
            /\ conn' = [conn EXCEPT !.size1 = st_size(op.files[WatchNames[conn.i]])]
    /\ UNCHANGED <<db, op, hist, resp>>

\* _is_file_ready after time.sleep(2): the size is unchanged and not 0;
\* then fhash = _file_hash(entry) and the processed check
FileReady ==
    /\ pc = "sleep"
    /\ LET f == op.files[WatchNames[conn.i]]
       IN IF st_size(f) = conn.size1 /\ conn.size1 > 0
          THEN IF file_hash(f) \in conn.mem
               THEN /\ pc' = "entry"
                    /\ conn' = [conn EXCEPT !.i = @ + 1, !.fhash = file_hash(f)]
                    /\ hist' = [hist EXCEPT !.last = "skipped", !.skipped = f]
               ELSE /\ pc' = "process"
                    /\ conn' = [conn EXCEPT !.fhash = file_hash(f)]
                    /\ UNCHANGED hist
          ELSE /\ pc' = "entry"
               /\ conn' = [conn EXCEPT !.i = @ + 1]
               /\ hist' = [hist EXCEPT !.last = "not_ready"]
    /\ UNCHANGED <<db, op, resp>>

\* _process_apple_health / _process_whoop: parse the file as it is on disk
\* and ingest it to the commit; an exception is caught and the entry left
Process ==
    /\ pc = "process"
    /\ LET name == WatchNames[conn.i]
           f == op.files[name]
       IN \E fails \in BOOLEAN :
            IF fails \/ process_raises(name, f) # "none"
            THEN /\ pc' = "entry"
                 /\ conn' = [conn EXCEPT !.i = @ + 1]
                 /\ hist' = [hist EXCEPT !.last = "raised"]
                 /\ UNCHANGED db
            ELSE /\ db' = [db EXCEPT !.t[IngestTable(name)] =
                              Append(@, [name |-> name, bytes |-> Bytes(f),
                                         complete |-> f.n = 2,
                                         fhash |-> conn.fhash])]
                 /\ pc' = "mark"
                 /\ hist' = [hist EXCEPT !.last = "ingested"]
                 /\ UNCHANGED conn
    /\ UNCHANGED <<op, resp>>

\* _mark_processed(fhash); processed.add(fhash)
MarkProcessed ==
    /\ pc = "mark"
    /\ op' = [op EXCEPT !.log = @ \cup {conn.fhash}]
    /\ conn' = [conn EXCEPT !.mem = @ \cup {conn.fhash}, !.i = @ + 1]
    /\ pc' = "entry"
    /\ hist' = [hist EXCEPT !.last = "marked"]
    /\ UNCHANGED <<db, resp>>

\* the watcher is stopped or killed, at any point
WatchStop ==
    /\ pc # "down"
    /\ hist.restarts < MaxRestarts
    /\ pc' = "down"
    /\ conn' = WatcherDown
    /\ hist' = [hist EXCEPT !.restarts = @ + 1, !.last = "stopped"]
    /\ UNCHANGED <<db, op, resp>>

InitWatch ==
    /\ db = [EmptyDb EXCEPT !.schema = TRUE, !.index = TRUE]
    /\ conn = WatcherDown
    /\ pc = "down"
    /\ op = [files |-> [i \in {WatchNames[k] : k \in 1..Len(WatchNames)} |-> NoFile],
             log |-> {}]
    /\ hist = [calls |-> 0, restarts |-> 0, last |-> "none", skipped |-> NoFile]
    /\ resp = NoResp

NextWatch ==
    \/ WriterCreate
    \/ WriterAppend
    \/ WatchStart
    \/ ScanStart
    \/ NextEntry
    \/ FileReady
    \/ Process
    \/ MarkProcessed
    \/ WatchStop

SpecWatch == InitWatch /\ [][NextWatch]_vars

-----------------------------------------------------------------------------
(* Properties of the watcher, checked under SpecWatch *)

\* the records every ingest of the watcher has committed
WatchIngested ==
    UNION {{db.t[n][i] : i \in 1..Len(db.t[n])} : n \in {"heart_rate", "whoop_recovery"}}

\* C27: over scans and restarts, a file whose fingerprint is recorded as
\* processed is never parsed or ingested again; a fingerprint is recorded
\* only right after that file's ingest has committed, never after a
\* processing that raised
C27_ProcessedOnce ==
    [][/\ Process => conn.fhash \notin op.log
       /\ MarkProcessed =>
             /\ hist.last = "ingested"
             /\ \E r \in WatchIngested :
                   r.fhash = conn.fhash /\ r.name = WatchNames[conn.i]]_vars

\* after a restart, a scan has skipped a file whose fingerprint is in
\* processed.txt, and a processing has raised before
C27_Witness ==
    /\ hist.restarts >= 1
    /\ hist.last = "skipped"
    /\ file_hash(hist.skipped) \in op.log
    /\ \E name \in DOMAIN op.files :
          op.files[name] # NoFile /\ file_hash(op.files[name]) \notin op.log
             /\ op.files[name].n >= 1

\* C28: the fingerprint covers the whole file: two files have one
\* fingerprint iff their bytes are the same, so a scan never skips as
\* already processed an export whose content differs from every file
\* processed before
C28_WholeFileFingerprint ==
    /\ \A a, b \in DOMAIN op.files :
          (op.files[a].n >= 1 /\ op.files[b].n >= 1) =>
             (file_hash(op.files[a]) = file_hash(op.files[b])
                <=> Bytes(op.files[a]) = Bytes(op.files[b]))
    /\ hist.last = "skipped" =>
          \E r \in WatchIngested : r.bytes = Bytes(hist.skipped)

\* C30: with a writer still copying, the watcher never records as processed
\* a file it ingested while the file was incomplete
C30_NoPartialMarked ==
    [][MarkProcessed =>
          \A r \in WatchIngested :
             (r.fhash = conn.fhash /\ r.name = WatchNames[conn.i]) => r.complete]_vars

-----------------------------------------------------------------------------
(* Whoop nights under the unique index, checked under Spec *)

\* the nights of the Whoop export, by recorded_at
WhoopNights ==
    {Exports["whoop"].data.sleep[i].recorded_at
        : i \in 1..Len(Exports["whoop"].data.sleep)}

\* C29: insert-if-absent never drops one night as a duplicate of another:
\* after ingest_whoop of N nights with pairwise distinct recorded_at the
\* sleep table holds N Whoop rows
C29_WhoopNightsKept ==
    (pc = "idle" /\ hist.last = "ingested" /\ op.export = "whoop") =>
        Cardinality({r \in db.sleep : r.source = "whoop"}) = Cardinality(WhoopNights)

====
